---- MODULE Spec2Model ----
(***************************************************************************)
(* A model of the life-analytics backend (backend/main.py, database.py,    *)
(* ml/predict.py): the two tables, the HTTP handlers as atomic actions,    *)
(* and the analytics as operators over the rows a handler fetched.         *)
(*                                                                         *)
(* Numbers.  sleep_hours is a float; it is kept here in tenths of an hour  *)
(* (75 is 7.5).  The values drawn are multiples of 0.5, which binary       *)
(* floating point holds exactly, so sums are exact and the rational        *)
(* arithmetic below agrees with the float arithmetic of the code.          *)
(* A value rounded to two decimals is kept in hundredths.                  *)
(* Text.  A string is a sequence of one-character strings, so that         *)
(* parsing and formatting are computed and not assumed.                    *)
(***************************************************************************)
EXTENDS Integers, Sequences, FiniteSets, TLC

VARIABLES
    entries,  \* the rows of table "entries" (database.py, class Entry)
    users,    \* the rows of table "users" (database.py, class User)
    resp,     \* the answer to the last request: the handler, its input, the
              \* status and the body
    added,    \* the add-entry calls that returned an id not deleted since:
              \* the id with the payload that was submitted
    reqs,     \* the register requests in flight, each with its position
    dbA, dbB  \* two lists of fetched entries, for comparing burnout scores

vars == <<entries, users, resp, added, reqs, dbA, dbB>>

(***************************************************************************)
(* Bounds of the model.                                                    *)
(***************************************************************************)
\* largest entry id the model lets the store assign
MaxId == 3
\* largest user id the model lets the store assign
MaxUsers == 2
\* number of rows handed to train_and_predict
MaxRows == 4
\* number of rows in each of the two entry sets compared by burnout score
MaxSetRows == 2
\* number of register requests in flight
NumRequests == 3

\* Python's None in a nullable column (predict.py tests "is not None")
None == -1000

(***************************************************************************)
(* Text helpers.                                                           *)
(***************************************************************************)
DigitChars == <<"0", "1", "2", "3", "4", "5", "6", "7", "8", "9">>

IsDigit(c) == \E i \in 1..10 : DigitChars[i] = c

DigitVal(c) == (CHOOSE i \in 1..10 : DigitChars[i] = c) - 1

AllDigits(s) == \A i \in 1..Len(s) : IsDigit(s[i])

RECURSIVE StrToNat(_)
StrToNat(s) ==
    IF Len(s) = 0 THEN 0
    ELSE 10 * StrToNat(SubSeq(s, 1, Len(s) - 1)) + DigitVal(s[Len(s)])

RECURSIVE NatToStr(_)
\* str(n) for an int n >= 0
NatToStr(n) ==
    IF n < 10 THEN <<DigitChars[n + 1]>>
    ELSE NatToStr(n \div 10) \o <<DigitChars[(n % 10) + 1]>>

RECURSIVE ZeroPad(_, _)
ZeroPad(s, width) == IF Len(s) >= width THEN s ELSE ZeroPad(<<"0">> \o s, width)

RECURSIVE SplitOn(_, _)
\* s.split(sep) for a one-character separator
SplitOn(s, sep) ==
    IF \A i \in 1..Len(s) : s[i] # sep THEN <<s>>
    ELSE LET k == CHOOSE i \in 1..Len(s) :
                      s[i] = sep /\ \A j \in 1..(i - 1) : s[j] # sep
         IN <<SubSeq(s, 1, k - 1)>> \o SplitOn(SubSeq(s, k + 1, Len(s)), sep)

RECURSIVE JoinWith(_, _)
JoinWith(fields, sep) ==
    IF Len(fields) = 0 THEN <<>>
    ELSE IF Len(fields) = 1 THEN fields[1]
    ELSE fields[1] \o <<sep>> \o JoinWith(Tail(fields), sep)

(***************************************************************************)
(* Dates: datetime.date as <<year, month, day>>.                           *)
(***************************************************************************)
IsLeap(y) == (y % 4 = 0 /\ y % 100 # 0) \/ y % 400 = 0

DaysInMonth(y, m) ==
    IF m = 2 THEN (IF IsLeap(y) THEN 29 ELSE 28)
    ELSE IF m \in {4, 6, 9, 11} THEN 30 ELSE 31

\* datetime.strptime(s, "%Y-%m-%d").date(): <<TRUE, date>> or <<FALSE, <<>>>>
\* (ValueError).  %Y is four digits; %m and %d are one or two digits, in
\* range, and the date must exist.
strptime(s) ==
    LET parts == SplitOn(s, "-")
        bad == <<FALSE, <<>>>>
    IN IF Len(parts) # 3 THEN bad
       ELSE LET Y == parts[1]
                m == parts[2]
                d == parts[3]
            IN IF ~(Len(Y) = 4 /\ AllDigits(Y)) THEN bad
               ELSE IF ~(Len(m) \in {1, 2} /\ AllDigits(m)) THEN bad
               ELSE IF ~(Len(d) \in {1, 2} /\ AllDigits(d)) THEN bad
               ELSE LET yy == StrToNat(Y)
                        mm == StrToNat(m)
                        dd == StrToNat(d)
                    IN IF yy >= 1 /\ mm \in 1..12 /\ dd >= 1
                          /\ dd <= DaysInMonth(yy, mm)
                       THEN <<TRUE, <<yy, mm, dd>>>>
                       ELSE bad

\* isoformat with the zero padding forgotten
isoformat_unpadded(dt) ==
    NatToStr(dt[1]) \o <<"-">> \o NatToStr(dt[2]) \o <<"-">> \o NatToStr(dt[3])

\* date.isoformat() / str(date): zero-padded YYYY-MM-DD
isoformat(dt) ==
    ZeroPad(NatToStr(dt[1]), 4) \o <<"-">> \o ZeroPad(NatToStr(dt[2]), 2)
        \o <<"-">> \o ZeroPad(NatToStr(dt[3]), 2)

DateLess(a, b) ==
    \/ a[1] < b[1]
    \/ a[1] = b[1] /\ a[2] < b[2]
    \/ a[1] = b[1] /\ a[2] = b[2] /\ a[3] < b[3]

(***************************************************************************)
(* The entries table and its queries.                                      *)
(***************************************************************************)
EntryIds == {e.id : e \in entries}

SetMax(S) == CHOOSE x \in S : \A y \in S : y <= x

\* the rowid an INTEGER PRIMARY KEY column gets on insert: largest + 1
NextEntryId == IF entries = {} THEN 1 ELSE SetMax(EntryIds) + 1

RECURSIVE RowsById(_)
\* db.query(Entry).all(): the table scan, in rowid order
RowsById(rows) ==
    IF rows = {} THEN <<>>
    ELSE LET first == CHOOSE e \in rows : \A f \in rows : e.id <= f.id
         IN <<first>> \o RowsById(rows \ {first})

EntryBefore(e, f) == DateLess(e.date, f.date) \/ (e.date = f.date /\ e.id < f.id)

RECURSIVE RowsByDate(_)
\* db.query(Entry).order_by(Entry.date).all(); equal dates in rowid order
RowsByDate(rows) ==
    IF rows = {} THEN <<>>
    ELSE LET first == CHOOSE e \in rows : \A f \in rows \ {e} : EntryBefore(e, f)
         IN <<first>> \o RowsByDate(rows \ {first})

\* an Entry as the JSON encoder sends it
EntryJson(e) ==
    [id |-> e.id, date |-> isoformat(e.date), sleep_hours |-> e.sleep_hours,
     mood |-> e.mood, productivity |-> e.productivity]

EntriesJson(rows) == [i \in 1..Len(rows) |-> EntryJson(rows[i])]

NoResp == [op |-> "none", arg |-> <<>>, status |-> 0, body |-> <<>>]

Reply(op, arg, status, body) ==
    [op |-> op, arg |-> arg, status |-> status, body |-> body]

(***************************************************************************)
(* Entry CRUD handlers.                                                    *)
(***************************************************************************)
\* POST /add-entry.  The payload has passed EntryCreate, so sleep_hours, mood
\* and productivity are numbers; any exception in the body (here the
\* ValueError of strptime) becomes a 400 with the exception's text.
add_entry(payload) ==
    LET parsed == strptime(payload.date)
    IN IF parsed[1]
       THEN /\ NextEntryId <= MaxId
            /\ LET new_entry == [id |-> NextEntryId, date |-> parsed[2],
                                 sleep_hours |-> payload.sleep_hours,
                                 mood |-> payload.mood,
                                 productivity |-> payload.productivity]
               IN /\ entries' = entries \cup {new_entry}
                  /\ added' = added \cup {[id |-> new_entry.id, payload |-> payload]}
                  /\ resp' = Reply("add_entry", payload, 200,
                                   [message |-> "Entry added", id |-> new_entry.id])
            /\ UNCHANGED <<users, reqs, dbA, dbB>>
       ELSE /\ resp' = Reply("add_entry", payload, 400,
                             [detail |-> "ValueError"])
            /\ UNCHANGED <<entries, users, added, reqs, dbA, dbB>>

\* GET /entries
get_entries ==
    /\ resp' = Reply("get_entries", <<>>, 200, EntriesJson(RowsByDate(entries)))
    /\ UNCHANGED <<entries, users, added, reqs, dbA, dbB>>

\* GET /entries/by-date/{date}: strptime is outside any try, so a ValueError
\* leaves the handler and the server answers 500
get_entries_by_date(date) ==
    LET parsed == strptime(date)
    IN /\ IF parsed[1]
          THEN resp' = Reply("get_entries_by_date", date, 200,
                   EntriesJson(RowsById({e \in entries : e.date = parsed[2]})))
          ELSE resp' = Reply("get_entries_by_date", date, 500,
                   [detail |-> "Internal Server Error"])
       /\ UNCHANGED <<entries, users, added, reqs, dbA, dbB>>

\* delete_entry with the filter comparing <= in place of ==
delete_entry_upto(entry_id) ==
    /\ entries' = {e \in entries : e.id > entry_id}
    /\ added' = {h \in added : h.id > entry_id}
    /\ resp' = Reply("delete_entry", entry_id, 200, [message |-> "Entry deleted"])
    /\ UNCHANGED <<users, reqs, dbA, dbB>>

\* DELETE /entries/{entry_id}
delete_entry(entry_id) ==
    /\ entries' = {e \in entries : e.id # entry_id}
    /\ added' = {h \in added : h.id # entry_id}
    /\ resp' = Reply("delete_entry", entry_id, 200, [message |-> "Entry deleted"])
    /\ UNCHANGED <<users, reqs, dbA, dbB>>

\* DELETE /entries
delete_all ==
    /\ entries' = {}
    /\ added' = {}
    /\ resp' = Reply("delete_all", <<>>, 200, [message |-> "All entries deleted"])
    /\ UNCHANGED <<users, reqs, dbA, dbB>>

(***************************************************************************)
(* CSV export.                                                             *)
(***************************************************************************)
\* FloatRepr with the value truncated to whole hours
FloatRepr_truncated(t) == NatToStr(t \div 10) \o <<".", "0">>

\* repr(x) of a float x >= 0 held in tenths: 7.5 -> "7.5", 7.0 -> "7.0"
FloatRepr(t) == NatToStr(t \div 10) \o <<".">> \o <<DigitChars[(t % 10) + 1]>>

CsvHeader == <<<<"D", "a", "t", "e">>, <<"S", "l", "e", "e", "p", " ", "H", "o", "u", "r", "s">>, <<"M", "o", "o", "d">>, <<"P", "r", "o", "d", "u", "c", "t", "i", "v", "i", "t", "y">>>>

\* csv.writer.writerow: the fields' str(), comma separated, ended by \r\n
\* (no field here holds a comma, a quote or a line break, so none is quoted)
writerow(fields) == JoinWith(fields, ",") \o <<"\r", "\n">>

EntryCsvFields(e) ==
    <<isoformat(e.date), FloatRepr(e.sleep_hours), NatToStr(e.mood),
      NatToStr(e.productivity)>>

RECURSIVE CsvRows(_)
CsvRows(rows) ==
    IF Len(rows) = 0 THEN <<>>
    ELSE writerow(EntryCsvFields(Head(rows))) \o CsvRows(Tail(rows))

\* the text written to the StringIO
CsvText(rows) == writerow(CsvHeader) \o CsvRows(rows)

\* GET /export/csv
export_csv ==
    /\ resp' = Reply("export_csv", <<>>, 200, CsvText(RowsById(entries)))
    /\ UNCHANGED <<entries, users, added, reqs, dbA, dbB>>

(***************************************************************************)
(* Users and auth.  bcrypt is kept as a salted one-way tag that no two     *)
(* passwords share: the stored value is never the password itself.         *)
(***************************************************************************)
Salts == {"s1", "s2"}

Digest(salt, password) == <<"bcrypt", salt, password>>

hash_password(password, salt) == [salt |-> salt, digest |-> Digest(salt, password)]

\* verify_password comparing nothing
verify_password_any(password, hashed) == hashed.salt \in Salts

verify_password(password, hashed) == hashed.digest = Digest(hashed.salt, password)

UserIds == {u.id : u \in users}

NextUserId == IF users = {} THEN 1 ELSE SetMax(UserIds) + 1

\* db.query(User).filter(User.email == email).first(): the set is empty or
\* holds the one row (email is UNIQUE)
UsersByEmail(email) == {u \in users : u.email = email}

NewUser(email, password, salt) ==
    [id |-> NextUserId, email |-> email,
     hashed_password |-> hash_password(password, salt), is_active |-> TRUE]

\* POST /auth/register, run without another request in between
register(email, password, salt) ==
    /\ IF UsersByEmail(email) # {}
       THEN /\ resp' = Reply("register", <<email, password>>, 400,
                             [detail |-> "Email exists"])
            /\ users' = users
       ELSE /\ NextUserId <= MaxUsers
            /\ users' = users \cup {NewUser(email, password, salt)}
            /\ resp' = Reply("register", <<email, password>>, 200,
                             [message |-> "Registered"])
    /\ UNCHANGED <<entries, added, reqs, dbA, dbB>>

\* POST /auth/login
login(email, password) ==
    /\ LET found == UsersByEmail(email)
       IN IF found = {}
             \/ \E u \in found : ~verify_password(password, u.hashed_password)
          THEN resp' = Reply("login", <<email, password>>, 401,
                             [detail |-> "Invalid credentials"])
          ELSE resp' = Reply("login", <<email, password>>, 200,
                   [message |-> "Login success",
                    email |-> (CHOOSE u \in found : TRUE).email])
    /\ UNCHANGED <<entries, users, added, reqs, dbA, dbB>>

(***************************************************************************)
(* POST /auth/register as the server runs it: each request in its own      *)
(* worker thread and session, the lookup and the insert-and-commit being   *)
(* two steps that other requests can come between.  The users table has a  *)
(* UNIQUE index on email, so the insert of a second row with a stored      *)
(* email raises IntegrityError, which nothing catches: the answer is 500.   *)
(***************************************************************************)
Request(pc, email, password, status, detail) ==
    [pc |-> pc, email |-> email, password |-> password, status |-> status,
     detail |-> detail]

IdleRequest == Request("idle", "", "", 0, "")

\* the request arrives and runs line 329, the lookup
register_lookup(r, email, password) ==
    /\ reqs[r].pc = "idle"
    /\ reqs' = [reqs EXCEPT ![r] =
                   IF UsersByEmail(email) # {}
                   THEN Request("done", email, password, 400, "Email exists")
                   ELSE Request("insert", email, password, 0, "")]
    /\ UNCHANGED <<entries, users, resp, added, dbA, dbB>>

\* lines 332-335: add, commit, answer
register_commit(r, salt) ==
    /\ reqs[r].pc = "insert"
    /\ IF UsersByEmail(reqs[r].email) # {}
       THEN /\ users' = users
            /\ reqs' = [reqs EXCEPT ![r] =
                   Request("done", reqs[r].email, reqs[r].password, 500,
                           "Internal Server Error")]
       ELSE /\ users' = users \cup {NewUser(reqs[r].email, reqs[r].password, salt)}
            /\ reqs' = [reqs EXCEPT ![r] =
                   Request("done", reqs[r].email, reqs[r].password, 200,
                           "Registered")]
    /\ UNCHANGED <<entries, resp, added, dbA, dbB>>

(***************************************************************************)
(* Arithmetic on the fetched rows.                                         *)
(***************************************************************************)
RECURSIVE SumSeq(_)
SumSeq(q) == IF Len(q) = 0 THEN 0 ELSE Head(q) + SumSeq(Tail(q))

SleepVals(rows) == [i \in 1..Len(rows) |-> rows[i].sleep_hours]
ProdVals(rows) == [i \in 1..Len(rows) |-> rows[i].productivity]
MoodVals(rows) == [i \in 1..Len(rows) |-> rows[i].mood]

\* q[-3:]
LastThree(q) == SubSeq(q, IF Len(q) > 3 THEN Len(q) - 2 ELSE 1, Len(q))

\* num/den (den > 0) rounded to the nearest integer, halves to the even one:
\* round(x, 2) of x = num/(100*den), in hundredths
RoundHalfEven(num, den) ==
    LET q == num \div den
        r == num % den
    IN IF 2 * r < den THEN q
       ELSE IF 2 * r > den THEN q + 1
       ELSE IF q % 2 = 0 THEN q ELSE q + 1

Opt(cond, item) == IF cond THEN <<item>> ELSE <<>>

Msg(name, value) == [msg |-> name, value |-> value]

(***************************************************************************)
(* GET /ai/insights.                                                       *)
(***************************************************************************)
InsightsNotEnough == <<Msg("just_getting_started", 0)>>

\* the insights list, with the entry-count test at 2
Insights_lt2(rows) ==
    IF Len(rows) < 2 THEN InsightsNotEnough ELSE <<Msg("closing", 0)>>

\* the insights list for the rows in date order.  avg_* are rounded to two
\* decimals (hundredths here); recent_* are not rounded.
Insights(rows) ==
    IF Len(rows) < 3 THEN InsightsNotEnough
    ELSE LET n == Len(rows)
             avg_sleep == RoundHalfEven(10 * SumSeq(SleepVals(rows)), n)
             avg_prod == RoundHalfEven(100 * SumSeq(ProdVals(rows)), n)
             avg_mood == RoundHalfEven(100 * SumSeq(MoodVals(rows)), n)
             \* three times the recent means, in tenths of an hour and in points
             recent_sleep3 == SumSeq(LastThree(SleepVals(rows)))
             recent_prod3 == SumSeq(LastThree(ProdVals(rows)))
         IN Opt(avg_sleep < 600, Msg("low_sleep", avg_sleep))
            \o Opt(avg_sleep >= 700, Msg("good_sleep", avg_sleep))
            \o Opt(10 * recent_sleep3 < 3 * avg_sleep
                       /\ 100 * recent_prod3 < 3 * avg_prod,
                   Msg("burnout_pattern", 0))
            \o Opt(avg_prod >= 700, Msg("strong_productivity", 0))
            \o Opt(avg_prod < 500, Msg("low_productivity", 0))
            \o Opt(avg_mood >= 600 /\ avg_prod >= 600, Msg("mood_link", 0))
            \o <<Msg("closing", 0)>>

ai_insights ==
    /\ resp' = Reply("ai_insights", <<>>, 200,
                     [insights |-> Insights(RowsByDate(entries))])
    /\ UNCHANGED <<entries, users, added, reqs, dbA, dbB>>

(***************************************************************************)
(* GET /analysis/recommendations.                                          *)
(***************************************************************************)
RecsNotEnough == <<"track_a_few_more_days">>

Recommendations(rows) ==
    IF Len(rows) < 3 THEN RecsNotEnough
    ELSE LET n == Len(rows)
             sleep_sum == SumSeq(SleepVals(rows))
             prod_sum == SumSeq(ProdVals(rows))
             recent_sleep3 == SumSeq(LastThree(SleepVals(rows)))
             recs == Opt(sleep_sum < 60 * n, "sleep_earlier")
                     \o Opt(prod_sum < 5 * n, "smaller_chunks")
                     \o Opt(n * recent_sleep3 < 3 * sleep_sum, "sleep_dipped")
         IN IF recs = <<>> THEN <<"balanced">> ELSE recs

recommendations ==
    /\ resp' = Reply("recommendations", <<>>, 200,
                     [recommendations |-> Recommendations(RowsByDate(entries))])
    /\ UNCHANGED <<entries, users, added, reqs, dbA, dbB>>

(***************************************************************************)
(* GET /analysis/mood-productivity-correlation.                            *)
(***************************************************************************)
CorrelationNotEnough == [correlation |-> [kind |-> "null"], message |-> "not_enough_data"]

SumProd(a, b) == SumSeq([i \in 1..Len(a) |-> a[i] * b[i]])

\* pearsonr(moods, prods): r = sxy / sqrt(sxx * syy), here through r^2;
\* a constant series gives nan, which is in no strength class but "Weak"
Correlation(rows) ==
    IF Len(rows) < 3 THEN CorrelationNotEnough
    ELSE LET n == Len(rows)
             moods == MoodVals(rows)
             prods == ProdVals(rows)
             sxx == n * SumProd(moods, moods) - SumSeq(moods) * SumSeq(moods)
             syy == n * SumProd(prods, prods) - SumSeq(prods) * SumSeq(prods)
             sxy == n * SumProd(moods, prods) - SumSeq(moods) * SumSeq(prods)
             ss == sxx * syy
         IN IF ss = 0
            THEN [correlation |-> [kind |-> "nan"], strength |-> "Weak",
                  message |-> "Weak"]
            ELSE LET strength == IF 25 * sxy * sxy > 9 * ss THEN "Strong"
                                 ELSE IF 100 * sxy * sxy > 9 * ss THEN "Moderate"
                                 ELSE "Weak"
                     \* |r| rounded to two decimals, in hundredths
                     k == CHOOSE k \in 0..100 :
                              /\ 40000 * sxy * sxy < (2 * k + 1) * (2 * k + 1) * ss
                              /\ k = 0 \/ (2 * k - 1) * (2 * k - 1) * ss
                                              <= 40000 * sxy * sxy
                 IN [correlation |-> [kind |-> "number",
                                      value |-> IF sxy < 0 THEN -k ELSE k],
                     strength |-> strength, message |-> strength]

mood_productivity_correlation ==
    /\ resp' = Reply("mood_productivity_correlation", <<>>, 200,
                     Correlation(RowsById(entries)))
    /\ UNCHANGED <<entries, users, added, reqs, dbA, dbB>>

(***************************************************************************)
(* GET /analysis/burnout-score.                                            *)
(***************************************************************************)
Level(score) ==
    IF score > 70 THEN "High" ELSE IF score > 40 THEN "Moderate" ELSE "Low"

\* the score with max(0, min(100, .)) left out
BurnoutScore_unclamped(rows) ==
    IF Len(rows) = 0 THEN [score |-> 0, level |-> "Unknown"]
    ELSE LET n == Len(rows)
             num == 1400 * n - 8 * SumSeq(SleepVals(rows))
                        - 60 * SumSeq(ProdVals(rows))
             score == num \div (10 * n)
         IN [score |-> score, level |-> Level(score)]

\* (10 - avg_sleep) * 8 + (10 - avg_prod) * 6 is num / (10 * n) with sleep in
\* tenths; int() of the clamped value drops the fraction
BurnoutScore(rows) ==
    IF Len(rows) = 0 THEN [score |-> 0, level |-> "Unknown"]
    ELSE LET n == Len(rows)
             num == 1400 * n - 8 * SumSeq(SleepVals(rows))
                        - 60 * SumSeq(ProdVals(rows))
             score == IF num <= 0 THEN 0
                      ELSE IF num >= 1000 * n THEN 100
                      ELSE num \div (10 * n)
         IN [score |-> score, level |-> Level(score)]

burnout_score ==
    /\ resp' = Reply("burnout_score", <<>>, 200, BurnoutScore(RowsById(entries)))
    /\ UNCHANGED <<entries, users, added, reqs, dbA, dbB>>

(***************************************************************************)
(* ml/predict.py and GET /ml/predict.                                      *)
(***************************************************************************)
HasBoth(e) == e.sleep_hours # None /\ e.productivity # None

Prediction(value, mode, confidence) ==
    [predicted_productivity |-> value, mode |-> mode, confidence |-> confidence]

Min(a, b) == IF a < b THEN a ELSE b

\* the least-squares line through data, at x0, as a fraction <<num, den>>;
\* with every sleep value equal the fitted slope is 0
FitAt(data, x0) ==
    LET n == Len(data)
        xs == SleepVals(data)
        ys == ProdVals(data)
        sxx == n * SumProd(xs, xs) - SumSeq(xs) * SumSeq(xs)
        sxy == n * SumProd(xs, ys) - SumSeq(xs) * SumSeq(ys)
    IN IF sxx = 0 THEN <<SumSeq(ys), n>>
       ELSE <<SumSeq(ys) * sxx + sxy * (n * x0 - SumSeq(xs)), n * sxx>>

\* train_and_predict with the regression starting at 3 pairs
train_and_predict_from3(rows, sleep_hours) ==
    LET data == SelectSeq(rows, HasBoth)
        n == Len(data)
    IN IF n = 0 THEN Prediction(500, "no-data", 20)
       ELSE IF n < 3
       THEN Prediction(RoundHalfEven(100 * SumSeq(ProdVals(data)), n),
                       "average", Min(60, 30 + n * 10))
       ELSE Prediction(500, "regression", 75)

\* predicted_productivity is in hundredths
train_and_predict(rows, sleep_hours) ==
    LET data == SelectSeq(rows, HasBoth)
        n == Len(data)
    IN IF n = 0 THEN Prediction(500, "no-data", 20)
       ELSE IF n < 4
       THEN Prediction(RoundHalfEven(100 * SumSeq(ProdVals(data)), n),
                       "average", Min(60, 30 + n * 10))
       ELSE LET fit == FitAt(data, sleep_hours)
                \* max(1, min(10, prediction))
                clamped == IF fit[1] >= 10 * fit[2] THEN <<10, 1>>
                           ELSE IF fit[1] <= fit[2] THEN <<1, 1>>
                           ELSE fit
            IN Prediction(RoundHalfEven(100 * clamped[1], clamped[2]),
                          "regression", 75)

predict(sleep_hours) ==
    /\ resp' = Reply("predict", sleep_hours, 200,
                     train_and_predict(RowsById(entries), sleep_hours))
    /\ UNCHANGED <<entries, users, added, reqs, dbA, dbB>>

(***************************************************************************)
(* Inputs.                                                                 *)
(***************************************************************************)
D_0105 == <<"2", "0", "2", "4", "-", "0", "1", "-", "0", "5">>
D_0104 == <<"2", "0", "2", "4", "-", "0", "1", "-", "0", "4">>
\* not zero-padded: strptime takes it, the pattern YYYY-MM-DD does not
D_unpadded == <<"2", "0", "2", "4", "-", "1", "-", "6">>
\* day first
D_dmy == <<"0", "5", "-", "0", "1", "-", "2", "0", "2", "4">>
\* of the pattern, but no such day
D_feb30 == <<"2", "0", "2", "4", "-", "0", "2", "-", "3", "0">>
D_word == <<"t", "o", "d", "a", "y">>

GoodDates == {D_0105, D_0104, D_unpadded}
BadDates == {D_dmy, D_feb30, D_word}
DateStrings == GoodDates \cup BadDates

GoodPayloads ==
    {[date |-> D_0105, sleep_hours |-> 75, mood |-> 4, productivity |-> 7],
     [date |-> D_0104, sleep_hours |-> 50, mood |-> 8, productivity |-> 3],
     [date |-> D_0104, sleep_hours |-> 75, mood |-> 4, productivity |-> 7],
     [date |-> D_unpadded, sleep_hours |-> 75, mood |-> 4, productivity |-> 7]}

Payloads ==
    GoodPayloads
    \cup [date : BadDates, sleep_hours : {75}, mood : {4}, productivity : {7}]

Emails == {"ann@x.org", "bob@x.org", "cy@x.org"}
Passwords == {"pw1", "pw2"}

EmptyReqs == [r \in 1..NumRequests |-> IdleRequest]

Init ==
    /\ entries = {}
    /\ users = {}
    /\ resp = NoResp
    /\ added = {}
    /\ reqs = EmptyReqs
    /\ dbA = <<>>
    /\ dbB = <<>>

(***************************************************************************)
(* Spec: the entry store behind its HTTP handlers, one request at a time.  *)
(***************************************************************************)
Next ==
    \/ \E d \in DateStrings : get_entries_by_date(d)
    \/ \E p \in Payloads : add_entry(p)
    \/ get_entries
    \/ \E i \in 1..MaxId : delete_entry(i)
    \/ delete_all
    \/ export_csv
    \/ register("ann@x.org", "pw1", "s1")
    \/ login("ann@x.org", "pw1")

Spec == Init /\ [][Next]_vars

(***************************************************************************)
(* SpecAuth: register and login calls, one request at a time.              *)
(***************************************************************************)
NextAuth ==
    \/ \E e \in Emails, p \in Passwords, s \in Salts : register(e, p, s)
    \/ \E e \in Emails, p \in Passwords : login(e, p)

SpecAuth == Init /\ [][NextAuth]_vars

(***************************************************************************)
(* SpecAnalytics: entries are added and the analytics are asked for.       *)
(***************************************************************************)
AnalyticsPayloads ==
    {[date |-> d, sleep_hours |-> sl, mood |-> (IF sl = 70 THEN 8 ELSE 4),
      productivity |-> pr] : d \in {D_0104, D_0105}, sl \in {50, 70},
                             pr \in {3, 7}}

NextAnalytics ==
    \/ \E p \in AnalyticsPayloads : add_entry(p)
    \/ delete_all
    \/ ai_insights
    \/ recommendations
    \/ mood_productivity_correlation
    \/ burnout_score

SpecAnalytics == Init /\ [][NextAnalytics]_vars

(***************************************************************************)
(* SpecPredict: train_and_predict over tables whose columns may hold NULL. *)
(***************************************************************************)
PredictCells == {<<None, 3>>, <<50, None>>, <<50, 3>>, <<50, 7>>, <<70, 3>>, <<70, 7>>}

PredictTable(f, k) ==
    {[id |-> i, date |-> <<2024, 1, i>>, sleep_hours |-> f[i][1], mood |-> 5,
      productivity |-> f[i][2]] : i \in 1..k}

PredictTables ==
    UNION {{PredictTable(f, k) : f \in [1..k -> PredictCells]} : k \in 0..MaxRows}

PredictTargets == {0, 60, 120}

InitPredict ==
    /\ entries \in PredictTables
    /\ users = {}
    /\ resp = NoResp
    /\ added = {}
    /\ reqs = EmptyReqs
    /\ dbA = <<>>
    /\ dbB = <<>>

NextPredict == \E x \in PredictTargets : predict(x)

SpecPredict == InitPredict /\ [][NextPredict]_vars

(***************************************************************************)
(* SpecBurnout: the burnout score of two entry sets, side by side.         *)
(***************************************************************************)
BurnoutCells == {[sleep_hours |-> sl, productivity |-> pr] :
                    sl \in {0, 55, 120}, pr \in {0, 10}}

BurnoutRows == UNION {[1..k -> BurnoutCells] : k \in 1..MaxSetRows}

InitBurnout ==
    /\ entries = {}
    /\ users = {}
    /\ resp = NoResp
    /\ added = {}
    /\ reqs = EmptyReqs
    /\ dbA \in BurnoutRows
    /\ dbB \in BurnoutRows

burnout_score_both ==
    /\ resp' = Reply("burnout_score_both", <<>>, 200,
                     <<BurnoutScore(dbA), BurnoutScore(dbB)>>)
    /\ UNCHANGED <<entries, users, added, reqs, dbA, dbB>>

NextBurnout == burnout_score_both

SpecBurnout == InitBurnout /\ [][NextBurnout]_vars

(***************************************************************************)
(* SpecConc: register requests running concurrently.                       *)
(***************************************************************************)
ConcEmails == {"ann@x.org", "bob@x.org"}

NextConc ==
    \/ \E r \in 1..NumRequests, e \in ConcEmails, p \in Passwords :
           register_lookup(r, e, p)
    \/ \E r \in 1..NumRequests : register_commit(r, "s1")

SpecConc == Init /\ [][NextConc]_vars

(***************************************************************************)
(* Properties of Spec.                                                     *)
(***************************************************************************)
\* the pattern YYYY-MM-DD: four digits, dash, two digits, dash, two digits
MatchesPattern(s) ==
    /\ Len(s) = 10
    /\ s[5] = "-" /\ s[8] = "-"
    /\ \A i \in {1, 2, 3, 4, 6, 7, 9, 10} : IsDigit(s[i])

\* C1: every add-entry call with a valid payload that returned an id, and
\* whose id was not deleted afterwards, is in the answer of GET /entries as a
\* record with that id and the date, sleep_hours, mood and productivity that
\* were submitted.
C1_AddedEntryIsListed ==
    resp.op = "get_entries" =>
        \A h \in added :
            MatchesPattern(h.payload.date) =>
                \E i \in 1..Len(resp.body) :
                    /\ resp.body[i].id = h.id
                    /\ resp.body[i].date = h.payload.date
                    /\ resp.body[i].sleep_hours = h.payload.sleep_hours
                    /\ resp.body[i].mood = h.payload.mood
                    /\ resp.body[i].productivity = h.payload.productivity

\* GET /entries answered with two added entries of different payloads listed
C1_Witness ==
    /\ resp.op = "get_entries"
    /\ Len(resp.body) >= 2
    /\ \E h, g \in added :
           /\ h.id < g.id
           /\ h.payload # g.payload
           /\ MatchesPattern(h.payload.date) /\ MatchesPattern(g.payload.date)

\* C2: DELETE /entries/{id} answers with the acknowledgment; when no entry
\* has the id the entries and the users are unchanged; when one has, exactly
\* that entry is removed and no other.
C2_DeleteEntryFrame ==
    [][resp'.op = "delete_entry" =>
          /\ resp'.status = 200
          /\ resp'.body = [message |-> "Entry deleted"]
          /\ users' = users
          /\ IF resp'.arg \in EntryIds
             THEN \E e \in entries : e.id = resp'.arg /\ entries' = entries \ {e}
             ELSE entries' = entries]_vars

\* a delete of an id that is not stored, answered, with entries and a user
\* in the store
C2_Witness ==
    /\ resp.op = "delete_entry"
    /\ resp.status = 200
    /\ resp.arg \notin EntryIds
    /\ Cardinality(entries) >= 2
    /\ users # {}

RespDate == IF resp.op = "add_entry" THEN resp.arg.date ELSE resp.arg

\* C4: a request whose date string is not of the pattern YYYY-MM-DD gets a
\* 4xx answer, from POST /add-entry and from GET /entries/by-date/{date},
\* and no stored entry comes from such an add-entry.
C4_BadDateIsClientError ==
    /\ (resp.op \in {"add_entry", "get_entries_by_date"}
            /\ ~MatchesPattern(RespDate))
          => resp.status \in 400..499
    /\ \A h \in added : MatchesPattern(h.payload.date)

\* text -> lines: split at \n, drop the \r that ends each line and the empty
\* piece after the last line break
StripCR(line) ==
    IF Len(line) > 0 /\ line[Len(line)] = "\r"
    THEN SubSeq(line, 1, Len(line) - 1) ELSE line

SplitLines(text) ==
    LET pieces == SplitOn(text, "\n")
    IN [i \in 1..(Len(pieces) - 1) |-> StripCR(pieces[i])]

\* float(s) for digits '.' digit, in tenths
ParseFloat(s) ==
    LET p == SplitOn(s, ".")
    IN 10 * StrToNat(p[1]) + StrToNat(p[2])

\* one CSV data line read back as (date, sleep, mood, productivity)
ParseCsvLine(line) ==
    LET f == SplitOn(line, ",")
    IN <<strptime(f[1])[2], ParseFloat(f[2]), StrToNat(f[3]), StrToNat(f[4])>>

\* the data rows of the CSV text, read back
ParseCsv(text) ==
    LET lines == SplitLines(text)
    IN [i \in 1..(Len(lines) - 1) |-> ParseCsvLine(lines[i + 1])]

EntryTuple(e) == <<e.date, e.sleep_hours, e.mood, e.productivity>>

Tuples(rows) == [i \in 1..Len(rows) |-> EntryTuple(rows[i])]

\* C8 as stated: the rows of the CSV after the header, read back, are the
\* tuples of the stored entries in the order GET /entries lists them.
C8_CsvInListingOrder ==
    resp.op = "export_csv" =>
        /\ SplitLines(resp.body)[1] = JoinWith(CsvHeader, ",")
        /\ ParseCsv(resp.body) = Tuples(RowsByDate(entries))

\* C8 amended: the rows of the CSV after the header, read back, are the
\* tuples of the stored entries, one row per entry, in ascending id order
\* (the order the entries were inserted in).
C8_CsvInIdOrder ==
    resp.op = "export_csv" =>
        /\ SplitLines(resp.body)[1] = JoinWith(CsvHeader, ",")
        /\ ParseCsv(resp.body) = Tuples(RowsById(entries))

\* a CSV export of entries whose insertion order is not their date order
C8_Witness ==
    /\ resp.op = "export_csv"
    /\ Cardinality(entries) >= 2
    /\ RowsById(entries) # RowsByDate(entries)
    /\ \E e \in entries : e.sleep_hours % 10 # 0

(***************************************************************************)
(* Properties of SpecAuth.                                                 *)
(***************************************************************************)
\* the password a stored hash was made from
RegisteredPassword(u) == u.hashed_password.digest[3]

\* C3: a register for a stored email fails with the "Email exists" client
\* error (status 400) and changes no user record; a login with an email that
\* is not stored, or with a password other than the registered one, fails with
\* the authorization error (401); a login with the registered password
\* succeeds and returns that email.
C3_RegisterLoginContract ==
    [][/\ resp'.op = "register" =>
             IF UsersByEmail(resp'.arg[1]) # {}
             THEN /\ resp'.status = 400
                  /\ resp'.body = [detail |-> "Email exists"]
                  /\ users' = users
             ELSE /\ resp'.status = 200
                  /\ Cardinality(users') = Cardinality(users) + 1
       /\ resp'.op = "login" =>
             /\ users' = users
             /\ IF \E u \in users : /\ u.email = resp'.arg[1]
                                    /\ RegisteredPassword(u) = resp'.arg[2]
                THEN /\ resp'.status = 200
                     /\ resp'.body.email = resp'.arg[1]
                ELSE /\ resp'.status = 401
                     /\ resp'.body = [detail |-> "Invalid credentials"]]_vars

\* a second register of a stored email, with another password, was refused
\* and the stored hash is still the one of the first password
C3_Witness ==
    /\ resp.op = "register"
    /\ resp.status = 400
    /\ Cardinality(users) = 2
    /\ \E u \in users : /\ u.email = resp.arg[1]
                        /\ RegisteredPassword(u) # resp.arg[2]

(***************************************************************************)
(* Properties of SpecAnalytics.                                            *)
(***************************************************************************)
\* C7: with fewer than 3 stored entries, /ai/insights,
\* /analysis/recommendations and /analysis/mood-productivity-correlation each
\* answer with their one fixed response, whatever the entries hold.
C7_FixedBelowThree ==
    Cardinality(entries) < 3 =>
        /\ resp.op = "ai_insights" =>
               resp.body = [insights |-> <<Msg("just_getting_started", 0)>>]
        /\ resp.op = "recommendations" =>
               resp.body = [recommendations |-> <<"track_a_few_more_days">>]
        /\ resp.op = "mood_productivity_correlation" =>
               resp.body = [correlation |-> [kind |-> "null"],
                            message |-> "not_enough_data"]

\* insights asked for with two stored entries that differ in every value
C7_Witness ==
    /\ resp.op = "ai_insights"
    /\ Cardinality(entries) = 2
    /\ \E e, f \in entries : /\ e.date # f.date
                             /\ e.sleep_hours # f.sleep_hours
                             /\ e.productivity # f.productivity

Warned == \E i \in 1..Len(resp.body.insights) :
              resp.body.insights[i].msg = "burnout_pattern"

\* C9: with 3 or more entries /ai/insights gives the burnout-pattern warning
\* exactly when the mean sleep of the 3 most recent entries is below the mean
\* sleep of all entries and the mean productivity of those 3 is below the
\* mean productivity of all; so with exactly 3 entries it never gives it.
C9_WarningIffRecentBelowMean ==
    (resp.op = "ai_insights" /\ Cardinality(entries) >= 3) =>
        LET rows == RowsByDate(entries)
            n == Len(rows)
        IN /\ Warned <=>
                  /\ n * SumSeq(LastThree(SleepVals(rows)))
                         < 3 * SumSeq(SleepVals(rows))
                  /\ n * SumSeq(LastThree(ProdVals(rows)))
                         < 3 * SumSeq(ProdVals(rows))
           /\ n = 3 => ~Warned

(***************************************************************************)
(* Properties of SpecPredict.                                              *)
(***************************************************************************)
Pairs == SelectSeq(RowsById(entries), HasBoth)

\* C5 as stated: the mode follows the number n of entries with both values:
\* n = 0 gives 5.0, "no-data", 20; 1 <= n <= 3 gives "average", the mean of
\* the productivity values, confidence min(60, 30 + 10n); n >= 4 gives
\* "regression", 75 and a value in [1,10].
C5_ModeByCountExactMean ==
    resp.op = "predict" =>
        LET n == Len(Pairs)
            out == resp.body
        IN /\ n = 0 => out = Prediction(500, "no-data", 20)
           /\ n \in 1..3 =>
                  /\ out.mode = "average"
                  /\ out.predicted_productivity * n = 100 * SumSeq(ProdVals(Pairs))
                  /\ out.confidence = Min(60, 30 + 10 * n)
                  /\ out.confidence = 30 + 10 * n
           /\ n >= 4 =>
                  /\ out.mode = "regression"
                  /\ out.confidence = 75
                  /\ out.predicted_productivity \in 100..1000

\* C5 amended: as above, the value for 1 <= n <= 3 being the mean of the
\* productivity values rounded to two decimals (within 0.005 of the mean).
C5_ModeByCountRoundedMean ==
    resp.op = "predict" =>
        LET n == Len(Pairs)
            out == resp.body
            diff == out.predicted_productivity * n - 100 * SumSeq(ProdVals(Pairs))
        IN /\ n = 0 => out = Prediction(500, "no-data", 20)
           /\ n \in 1..3 =>
                  /\ out.mode = "average"
                  /\ 2 * diff <= n /\ -n <= 2 * diff
                  /\ out.confidence = Min(60, 30 + 10 * n)
                  /\ out.confidence = 30 + 10 * n
           /\ n >= 4 =>
                  /\ out.mode = "regression"
                  /\ out.confidence = 75
                  /\ out.predicted_productivity \in 100..1000

\* a prediction from exactly 3 pairs whose mean has more than two decimals,
\* in a table that also holds a row without both values
C5_Witness ==
    /\ resp.op = "predict"
    /\ Len(Pairs) = 3
    /\ Cardinality(entries) = 4
    /\ SumSeq(ProdVals(Pairs)) % 3 # 0
    /\ resp.body.mode = "average"

(***************************************************************************)
(* Properties of SpecBurnout.                                              *)
(***************************************************************************)
\* C6: the burnout score of a non-empty entry set is in [0,100], and of two
\* entry sets the one with average sleep and average productivity both not
\* above the other's has a score not below the other's.
C6_ScoreClampedMonotone ==
    resp.op = "burnout_score_both" =>
        LET a == resp.body[1].score
            b == resp.body[2].score
        IN /\ a \in 0..100
           /\ b \in 0..100
           /\ (/\ SumSeq(SleepVals(dbA)) * Len(dbB) <= SumSeq(SleepVals(dbB)) * Len(dbA)
               /\ SumSeq(ProdVals(dbA)) * Len(dbB) <= SumSeq(ProdVals(dbB)) * Len(dbA))
                  => a >= b

\* two sets, the first with less average sleep and no more average
\* productivity, scored strictly inside the range and strictly apart
C6_Witness ==
    /\ resp.op = "burnout_score_both"
    /\ SumSeq(SleepVals(dbA)) * Len(dbB) < SumSeq(SleepVals(dbB)) * Len(dbA)
    /\ SumSeq(ProdVals(dbA)) * Len(dbB) <= SumSeq(ProdVals(dbB)) * Len(dbA)
    /\ resp.body[1].score < 100
    /\ resp.body[2].score > 0
    /\ resp.body[1].score > resp.body[2].score

(***************************************************************************)
(* Properties of SpecConc.                                                 *)
(***************************************************************************)
Done(e) == {r \in 1..NumRequests : reqs[r].pc = "done" /\ reqs[r].email = e}

Pending(e) == {r \in 1..NumRequests : reqs[r].pc = "insert" /\ reqs[r].email = e}

\* C10: of concurrent register requests with the same email exactly one is
\* answered "Registered", every other one is refused with the client error
\* "Email exists", and the users table never holds two rows with one email.
C10_OneRegisteredRestRefused ==
    /\ \A r \in 1..NumRequests :
           reqs[r].pc = "done" =>
               \/ reqs[r].status = 200 /\ reqs[r].detail = "Registered"
               \/ reqs[r].status = 400 /\ reqs[r].detail = "Email exists"
    /\ \A e \in ConcEmails :
           (Done(e) # {} /\ Pending(e) = {}) =>
               Cardinality({r \in Done(e) : reqs[r].status = 200}) = 1
    /\ \A u, v \in users : u.email = v.email => u = v

====
